---- MODULE Spec2Model ----
(***************************************************************************)
(* Lane-change decision engine of cistar_dev                               *)
(* (controllers/lane_change_controllers.py): the class-based               *)
(* StochasticLaneChanger.get_action and the closure-based                  *)
(* stochastic_lane_changer(...).controller, evaluated on a cached          *)
(* environment state (vehicles, scenario) of a circular multi-lane road.   *)
(*                                                                         *)
(* Numbers.  Speeds and positions are small integers.  A lane score is a   *)
(* rational [n, d] (n/d); d = 0 is the NaN that numpy.mean returns for an  *)
(* empty list.  Every comparison with NaN is false, as in IEEE-754.  On    *)
(* the value sets used here all sums, means and differences are exact in   *)
(* binary floating point wherever the decision compares for equality, so   *)
(* exact rationals order the scores as the floats do.                      *)
(* Probabilities and random draws are in hundredths (50 is 0.5).           *)
(***************************************************************************)
EXTENDS Integers, FiniteSets, Sequences, TLC

\* ------------------------------------------------------------------ bounds
MaxLanes == 3

\* --------------------------------------------------------- input value sets
TrackLength == 200
VehIds    == {"a", "b", "c"}
Fleets    == {{"a"}, {"a", "b"}, {"a", "b", "c"}}
\* (position, speed) of a vehicle: close pairs (10, 12), a pair across the
\* wrap of the track (190, 10), slow and fast vehicles
Kinematics ==
    { [x |-> 10, speed |-> 0], [x |-> 12, speed |-> 10],
      [x |-> 190, speed |-> 0], [x |-> 190, speed |-> 10] }
MaxSpeeds == {10}
Draws     == {0, 50, 99}
NoVeh     == "None"
NoDraw    == -1
NoLane    == -1
NoGap     == -1
\* no get_speed call yet
NoQuery   ==
    [veh_id |-> NoVeh, error |-> 0, value |-> 0, raised |-> FALSE]
\* get_speed(veh_id, error=-1001): the default and another caller's value
SpeedErrors == {-1001, -1}

\* __init__ defaults: speedThreshold=5, prob=0.5, dxBack=0, dxForward=60,
\* gapBack=10, gapForward=5
DefaultParams ==
    [speedThreshold |-> 5, prob |-> 50, dxBack |-> 0, dxForward |-> 60,
     gapBack |-> 10, gapForward |-> 5]

\* the instantiations explored: the defaults; a negative threshold with a
\* certain change; a threshold equal to the largest score difference, with a
\* narrow window and gaps that the vehicles meet exactly
ParamSets ==
    { DefaultParams,
      [speedThreshold |-> -1, prob |-> 100, dxBack |-> 0, dxForward |-> 60,
       gapBack |-> 10, gapForward |-> 5],
      [speedThreshold |-> 10, prob |-> 50, dxBack |-> 2, dxForward |-> 20,
       gapBack |-> 2, gapForward |-> 20] }

VARIABLES
    vehicles,       \* env.vehicles: id -> [lane, x, speed, max_speed]
    scenario,       \* env.scenario: [lanes, length]
    params,         \* the controller's configuration
    caller,         \* "none" | "class" | "closure": the last controller run
    veh,            \* the vehicle the last call evaluated
    v,              \* its score vector, lane -> score
    maxl,           \* its best lane
    action,         \* the lane it returned
    draw,           \* the value random.random() returned, NoDraw if not called
    gaps,           \* lane -> [headway, footway], for the lanes where computed
    windowQueried,  \* lanes for which env.get_cars was called
    decisions,      \* the step's Decision Record: id -> [draw, lane]
    repeated,       \* the last decision was for a vehicle already decided
    speedQuery      \* the last get_speed call: [veh_id, error, value, raised]

vars == <<vehicles, scenario, params, caller, veh, v, maxl, action, draw,
          gaps, windowQueried, decisions, repeated, speedQuery>>
envVars == <<vehicles, scenario, params>>
callVars == <<caller, veh, v, maxl, action, draw, gaps, windowQueried>>
auxVars == <<decisions, repeated, speedQuery>>

\* ------------------------------------------------------ score arithmetic
Num(k)   == [n |-> k, d |-> 1]
IsNaN(a) == a.d = 0
Gt(a, b) == a.d > 0 /\ b.d > 0 /\ a.n * b.d > b.n * a.d
Eq(a, b) == a.d > 0 /\ b.d > 0 /\ a.n * b.d = b.n * a.d
Sub(a, b) == [n |-> a.n * b.d - b.n * a.d, d |-> a.d * b.d]

RECURSIVE SumSpeeds(_)
SumSpeeds(S) ==
    IF S = {} THEN 0
    ELSE LET o == CHOOSE o \in S : TRUE
         IN  vehicles[o].speed + SumSpeeds(S \ {o})

\* numpy.mean of the speeds of the vehicles in S; NaN (0/0) when S is empty
np_mean(S) == [n |-> SumSpeeds(S), d |-> Cardinality(S)]

\* ------------------------------------------------- environment queries
get_x_by_id(id) == vehicles[id].x

WrappedDist(a, b) == (b - a) % scenario.length

OthersInLane(id, lane) ==
    {o \in DOMAIN vehicles : o # id /\ vehicles[o].lane = lane}

get_leading_car(id, lane) ==
    LET S == OthersInLane(id, lane)
    IN  IF S = {} THEN NoVeh
        ELSE CHOOSE o \in S : \A p \in S :
                 WrappedDist(get_x_by_id(id), get_x_by_id(o))
                     <= WrappedDist(get_x_by_id(id), get_x_by_id(p))

get_trailing_car(id, lane) ==
    LET S == OthersInLane(id, lane)
    IN  IF S = {} THEN NoVeh
        ELSE CHOOSE o \in S : \A p \in S :
                 WrappedDist(get_x_by_id(o), get_x_by_id(id))
                     <= WrappedDist(get_x_by_id(p), get_x_by_id(id))

get_cars(id, dxBack, dxForward, lane) ==
    {o \in DOMAIN vehicles :
        /\ vehicles[o].lane = lane
        /\ \/ WrappedDist(get_x_by_id(id), get_x_by_id(o)) <= dxForward
           \/ WrappedDist(get_x_by_id(o), get_x_by_id(id)) <= dxBack}

\* Python truthiness of an id: None is falsy
Truthy(id) == id # NoVeh

\* ------------------------------------------ StochasticLaneChanger (class)
\* (mutant: the difference of the positions, not wrapped)
Headway_NoWrap(leadPos, thisPos) == leadPos - thisPos

\* headway = (leadPos - thisPos) % env.scenario.length
Headway(leadPos, thisPos) == (leadPos - thisPos) % scenario.length

\* footway = (thisPos - trailPos) % env.scenario.length
Footway(thisPos, trailPos) == (thisPos - trailPos) % scenario.length

\* (mutant: the two gap tests joined by "and")
TooClose_And(headway, footway) ==
    headway < params.gapForward /\ footway < params.gapBack

\* the gap veto: headway < self.gapForward or footway < self.gapBack
TooClose(headway, footway) ==
    headway < params.gapForward \/ footway < params.gapBack

\* (mutant: the window distances passed in the wrong order)
OccupiedLaneScore_SwappedWindow(id, lane, headway, footway) ==
    IF headway < params.gapForward \/ footway < params.gapBack
    THEN [score |-> Num(0), gap |-> TRUE, window |-> FALSE,
          headway |-> headway, footway |-> footway]
    ELSE [score |-> np_mean(get_cars(id, params.dxForward, params.dxBack, lane)),
          gap |-> TRUE, window |-> TRUE,
          headway |-> headway, footway |-> footway]

\* (mutant: a vetoed lane scored like an empty one, with max_speed)
OccupiedLaneScore_VetoAsMax(id, lane, headway, footway) ==
    IF headway < params.gapForward \/ footway < params.gapBack
    THEN [score |-> Num(vehicles[id].max_speed), gap |-> TRUE,
          window |-> FALSE, headway |-> headway, footway |-> footway]
    ELSE [score |-> np_mean(get_cars(id, params.dxBack, params.dxForward, lane)),
          gap |-> TRUE, window |-> TRUE,
          headway |-> headway, footway |-> footway]

\* the score of a lane whose leader and follower are both present
OccupiedLaneScore(id, lane, headway, footway) ==
    IF TooClose(headway, footway)
    THEN [score |-> Num(0), gap |-> TRUE, window |-> FALSE,
          headway |-> headway, footway |-> footway]
    ELSE [score |-> np_mean(get_cars(id, params.dxBack, params.dxForward, lane)),
          gap |-> TRUE, window |-> TRUE,
          headway |-> headway, footway |-> footway]

\* (mutant: an empty lane scored with the vehicle's current speed)
LaneVisit_OwnSpeed(id, lane) ==
    LET leadID  == get_leading_car(id, lane)
        trailID == get_trailing_car(id, lane)
    IN  IF ~Truthy(leadID) \/ ~Truthy(trailID)
        THEN [score |-> Num(vehicles[id].speed),
              gap |-> FALSE, window |-> FALSE,
              headway |-> NoGap, footway |-> NoGap]
        ELSE OccupiedLaneScore(id, lane,
                 Headway(get_x_by_id(leadID), get_x_by_id(id)),
                 Footway(get_x_by_id(id), get_x_by_id(trailID)))

\* one iteration of the loop over the lanes: the score given to the lane,
\* whether the gaps were computed (and their values) and whether the window
\* was queried
LaneVisit(id, lane) ==
    LET leadID  == get_leading_car(id, lane)
        trailID == get_trailing_car(id, lane)
    IN  IF ~Truthy(leadID) \/ ~Truthy(trailID)
        THEN [score |-> Num(vehicles[id].max_speed),
              gap |-> FALSE, window |-> FALSE,
              headway |-> NoGap, footway |-> NoGap]
        ELSE LET leadPos  == get_x_by_id(leadID)
                 trailPos == get_x_by_id(trailID)
                 thisPos  == get_x_by_id(id)
             IN  OccupiedLaneScore(id, lane, Headway(leadPos, thisPos),
                                   Footway(thisPos, trailPos))

\* Python's max(v), as the position of the element it returns: the first
\* element, replaced by a later one only when that one compares greater
RECURSIVE PyMaxPos(_, _)
PyMaxPos(vec, k) ==
    IF k = 0 THEN 0
    ELSE LET p == PyMaxPos(vec, k - 1)
         IN  IF Gt(vec[k], vec[p]) THEN k ELSE p

\* (mutant: the last position of the maximum instead of the first)
py_index_Last(vec, p) ==
    CHOOSE i \in DOMAIN vec :
        /\ i = p \/ Eq(vec[i], vec[p])
        /\ \A j \in DOMAIN vec : (j = p \/ Eq(vec[j], vec[p])) => i >= j

\* Python's v.index(x) for the element x at position p: the first position
\* whose element is x (identity) or compares equal to it
py_index(vec, p) ==
    CHOOSE i \in DOMAIN vec :
        /\ i = p \/ Eq(vec[i], vec[p])
        /\ \A j \in DOMAIN vec : (j = p \/ Eq(vec[j], vec[p])) => i <= j

\* (mutant: >= in place of >)
Warranted_GE(ml, maxv, myv, lane) ==
    LET delta == Sub(maxv, myv)
    IN  ml # lane /\ delta.d > 0 /\ delta.n >= params.speedThreshold * delta.d

\* (mutant: the speed threshold is not tested)
Warranted_NoThreshold(ml, maxv, myv, lane) == ml # lane

\* maxl != lane and (maxv - myv) > self.speedThreshold
Warranted(ml, maxv, myv, lane) ==
    ml # lane /\ Gt(Sub(maxv, myv), Num(params.speedThreshold))

\* (mutant: "no change" returned as the direction 0, not as the current lane)
Decide_Direction(ml, maxv, myv, lane, r) ==
    IF ml # lane /\ Gt(Sub(maxv, myv), Num(params.speedThreshold))
          /\ r < params.prob
    THEN ml ELSE 0

\* (mutant: <= in place of < on the draw)
Decide_LE(ml, maxv, myv, lane, r) ==
    IF ml # lane /\ Gt(Sub(maxv, myv), Num(params.speedThreshold))
          /\ r <= params.prob
    THEN ml ELSE lane

\* (mutant: no change right after a call that returned a change, a cooldown
\* kept across calls)
Decide_Cooldown(ml, maxv, myv, lane, r) ==
    IF ml # lane /\ Gt(Sub(maxv, myv), Num(params.speedThreshold))
          /\ r < params.prob
          /\ ~(veh \in DOMAIN vehicles /\ action # vehicles[veh].lane)
    THEN ml ELSE lane

\* the returned lane: maxl if the change is warranted and
\* random.random() < self.prob, else the current lane
Decide(ml, maxv, myv, lane, r) ==
    IF Warranted(ml, maxv, myv, lane) /\ r < params.prob THEN ml ELSE lane

\* the loop over range(num_lanes), as the sequence of its iterations
\* (iteration k visits lane k - 1)
RECURSIVE LaneVisits(_, _)
LaneVisits(id, k) ==
    IF k = 0 THEN <<>>
    ELSE Append(LaneVisits(id, k - 1), LaneVisit(id, k - 1))

\* (mutant: the call writes the returned lane into the cached state)
get_action_AppliesLane(id) ==
    /\ id \in DOMAIN vehicles
    /\ \E num_lanes \in {scenario.lanes} :
       \E visits \in {LaneVisits(id, num_lanes)} :
       \E sc \in {[l \in 0 .. (num_lanes - 1) |-> visits[l + 1].score]} :
       \E p \in {PyMaxPos(sc, num_lanes - 1)} :
       \E maxv \in {sc[p]}, ml \in {py_index(sc, p)} :
       \E lane \in {vehicles[id].lane} :
       \E myv \in {sc[lane]} :
          /\ caller' = "class"
          /\ veh' = id
          /\ v' = sc
          /\ maxl' = ml
          /\ gaps' = [l \in {k \in DOMAIN sc : visits[k + 1].gap} |->
                        [headway |-> visits[l + 1].headway,
                         footway |-> visits[l + 1].footway]]
          /\ windowQueried' = {l \in DOMAIN sc : visits[l + 1].window}
          /\ \E r \in Draws \cup {NoDraw} :
                /\ (r # NoDraw) <=> Warranted(ml, maxv, myv, lane)
                /\ draw' = r
                /\ action' = Decide(ml, maxv, myv, lane, r)
          /\ vehicles' = [vehicles EXCEPT ![id].lane = action']
          /\ UNCHANGED <<scenario, params>>

\* (each local is bound once, by \E over a singleton, so that it is computed
\* once per call, as in the code)
get_action(id) ==
    /\ id \in DOMAIN vehicles
    /\ \E num_lanes \in {scenario.lanes} :
       \E visits \in {LaneVisits(id, num_lanes)} :
       \E sc \in {[l \in 0 .. (num_lanes - 1) |-> visits[l + 1].score]} :
       \E p \in {PyMaxPos(sc, num_lanes - 1)} :
       \E maxv \in {sc[p]}, ml \in {py_index(sc, p)} :
       \E lane \in {vehicles[id].lane} :
       \E myv \in {sc[lane]} :
          /\ caller' = "class"
          /\ veh' = id
          /\ v' = sc
          /\ maxl' = ml
          /\ gaps' = [l \in {k \in DOMAIN sc : visits[k + 1].gap} |->
                        [headway |-> visits[l + 1].headway,
                         footway |-> visits[l + 1].footway]]
          /\ windowQueried' = {l \in DOMAIN sc : visits[l + 1].window}
          \* "and" short-circuits: random.random() is called only when the
          \* first two conditions hold
          /\ \E r \in Draws \cup {NoDraw} :
                /\ (r # NoDraw) <=> Warranted(ml, maxv, myv, lane)
                /\ draw' = r
                /\ action' = Decide(ml, maxv, myv, lane, r)
          /\ UNCHANGED envVars

\* ---------------------------- stochastic_lane_changer(...).controller
\* headway = (leadPos - thisPos) % env.scenario.length
controller_Headway(leadPos, thisPos) == (leadPos - thisPos) % scenario.length

\* footway = (thisPos - trailPos) % env.scenario.length
controller_Footway(thisPos, trailPos) == (thisPos - trailPos) % scenario.length

\* (mutant: the closure tests the default gaps, not its arguments)
controller_TooClose_Defaults(headway, footway) ==
    headway < DefaultParams.gapForward \/ footway < DefaultParams.gapBack

\* headway < gapForward or footway < gapBack, on the closure's variables
controller_TooClose(headway, footway) ==
    headway < params.gapForward \/ footway < params.gapBack

controller_OccupiedLaneScore(carID, lane, headway, footway) ==
    IF controller_TooClose(headway, footway)
    THEN [score |-> Num(0), gap |-> TRUE, window |-> FALSE,
          headway |-> headway, footway |-> footway]
    ELSE [score |-> np_mean(get_cars(carID, params.dxBack, params.dxForward,
                                     lane)),
          gap |-> TRUE, window |-> TRUE,
          headway |-> headway, footway |-> footway]

controller_LaneVisit(carID, lane) ==
    LET leadID  == get_leading_car(carID, lane)
        trailID == get_trailing_car(carID, lane)
    IN  IF ~Truthy(leadID) \/ ~Truthy(trailID)
        THEN [score |-> Num(vehicles[carID].max_speed),
              gap |-> FALSE, window |-> FALSE,
              headway |-> NoGap, footway |-> NoGap]
        ELSE LET leadPos  == get_x_by_id(leadID)
                 trailPos == get_x_by_id(trailID)
                 thisPos  == get_x_by_id(carID)
             IN  controller_OccupiedLaneScore(carID, lane,
                     controller_Headway(leadPos, thisPos),
                     controller_Footway(thisPos, trailPos))

\* maxl != lane and (maxv - myv) > speedThreshold
controller_Warranted(ml, maxv, myv, lane) ==
    ml # lane /\ Gt(Sub(maxv, myv), Num(params.speedThreshold))

\* the returned lane: maxl if the change is warranted and
\* random.random() < prob, else the current lane
controller_Decide(ml, maxv, myv, lane, r) ==
    IF controller_Warranted(ml, maxv, myv, lane) /\ r < params.prob
    THEN ml ELSE lane

RECURSIVE controller_LaneVisits(_, _)
controller_LaneVisits(carID, k) ==
    IF k = 0 THEN <<>>
    ELSE Append(controller_LaneVisits(carID, k - 1),
                controller_LaneVisit(carID, k - 1))

controller(carID) ==
    /\ carID \in DOMAIN vehicles
    /\ \E num_lanes \in {scenario.lanes} :
       \E visits \in {controller_LaneVisits(carID, num_lanes)} :
       \E sc \in {[l \in 0 .. (num_lanes - 1) |-> visits[l + 1].score]} :
       \E p \in {PyMaxPos(sc, num_lanes - 1)} :
       \E maxv \in {sc[p]}, ml \in {py_index(sc, p)} :
       \E lane \in {vehicles[carID].lane} :
       \E myv \in {sc[lane]} :
          /\ caller' = "closure"
          /\ veh' = carID
          /\ v' = sc
          /\ maxl' = ml
          /\ gaps' = [l \in {k \in DOMAIN sc : visits[k + 1].gap} |->
                        [headway |-> visits[l + 1].headway,
                         footway |-> visits[l + 1].footway]]
          /\ windowQueried' = {l \in DOMAIN sc : visits[l + 1].window}
          /\ \E r \in Draws \cup {NoDraw} :
                /\ (r # NoDraw) <=> controller_Warranted(ml, maxv, myv, lane)
                /\ draw' = r
                /\ action' = controller_Decide(ml, maxv, myv, lane, r)
          /\ UNCHANGED envVars

\* ------------------------------------------------------- specification
Init ==
    /\ \E lanes \in 1 .. MaxLanes, fleet \in Fleets :
          /\ scenario = [lanes |-> lanes, length |-> TrackLength]
          /\ \E ln \in [fleet -> 0 .. (lanes - 1)], kin \in [fleet -> Kinematics],
                ms \in [fleet -> MaxSpeeds] :
                vehicles = [id \in fleet |->
                              [lane |-> ln[id], x |-> kin[id].x,
                               speed |-> kin[id].speed, max_speed |-> ms[id]]]
    /\ params \in ParamSets
    /\ caller = "none"
    /\ veh = NoVeh
    /\ v = <<>>
    /\ maxl = NoLane
    /\ action = NoLane
    /\ draw = NoDraw
    /\ gaps = <<>>
    /\ windowQueried = {}
    /\ decisions = <<>>
    /\ repeated = FALSE
    /\ speedQuery = NoQuery

\* a controller is asked for a vehicle's lane
call_get_action(id) == get_action(id) /\ UNCHANGED auxVars

call_controller(carID) == controller(carID) /\ UNCHANGED auxVars

Next ==
    \/ \E id \in VehIds : call_get_action(id)
    \/ \E carID \in VehIds : call_controller(carID)

Spec == Init /\ [][Next]_vars

\* ------------------------------------------- one simulation step's decisions
\* The step asks the lane changer of one vehicle after the other, in any
\* order and possibly again, and files each answer in the Decision Record;
\* nothing is applied to the cached state before the step ends.
step_decide(id) ==
    /\ get_action(id)
    /\ repeated' = (id \in DOMAIN decisions)
    /\ decisions' = [k \in DOMAIN decisions \cup {id} |->
                        IF k = id THEN [draw |-> draw', lane |-> action']
                        ELSE decisions[k]]
    /\ UNCHANGED speedQuery

StepInit == Init /\ params = DefaultParams

StepNext == \E id \in VehIds : step_decide(id)

StepSpec == StepInit /\ [][StepNext]_vars

\* ------------------------------------------------- vehicle kernel queries
\* remove(veh_id): all traces of the vehicle leave the kernel
remove(veh_id) ==
    /\ veh_id \in DOMAIN vehicles
    /\ vehicles' = [k \in DOMAIN vehicles \ {veh_id} |-> vehicles[k]]
    /\ UNCHANGED <<scenario, params, callVars, auxVars>>

\* (mutant: the cache indexed without a test that the vehicle is tracked)
SpeedLookup_KeyError(veh_id, error) ==
    IF veh_id \in DOMAIN vehicles
    THEN [value |-> vehicles[veh_id].speed, raised |-> FALSE]
    ELSE [value |-> 0, raised |-> TRUE]

\* the speed in the cache, or the caller's error value when the vehicle is
\* not found
SpeedLookup(veh_id, error) ==
    IF veh_id \in DOMAIN vehicles
    THEN [value |-> vehicles[veh_id].speed, raised |-> FALSE]
    ELSE [value |-> error, raised |-> FALSE]

get_speed(veh_id, error) ==
    /\ speedQuery' = [veh_id |-> veh_id, error |-> error,
                      value |-> SpeedLookup(veh_id, error).value,
                      raised |-> SpeedLookup(veh_id, error).raised]
    /\ UNCHANGED <<envVars, callVars, decisions, repeated>>

KernelInit == Init /\ params = DefaultParams /\ DOMAIN vehicles = VehIds

KernelNext ==
    \/ \E veh_id \in VehIds : remove(veh_id)
    \/ \E veh_id \in VehIds, error \in SpeedErrors : get_speed(veh_id, error)

KernelSpec == KernelInit /\ [][KernelNext]_vars

\* ============================================================== claims
\* What a claim speaks of, read off the state after a call.
Called     == caller # "none"
CurLane    == vehicles[veh].lane
ThisX      == vehicles[veh].x
Lanes      == 0 .. (scenario.lanes - 1)
LeaderIn(l)   == get_leading_car(veh, l)
FollowerIn(l) == get_trailing_car(veh, l)
Occupied(l)   == LeaderIn(l) # NoVeh /\ FollowerIn(l) # NoVeh

\* the wrapped distance from position a to position b, without a modulo
Ahead(a, b) == IF b >= a THEN b - a ELSE b - a + scenario.length

GapViolated(l) ==
    \/ Ahead(ThisX, vehicles[LeaderIn(l)].x) < params.gapForward
    \/ Ahead(vehicles[FollowerIn(l)].x, ThisX) < params.gapBack

\* best_score - current_score > speed_threshold, on the returned scores
DeltaExceeds ==
    LET best == v[maxl]
        cur  == v[CurLane]
    IN  /\ best.d > 0 /\ cur.d > 0
        /\ best.n * cur.d - cur.n * best.d
               > params.speedThreshold * best.d * cur.d

\* C1: the call returns best_lane iff best_lane differs from the current
\* lane and best_score - current_score > speedThreshold (strictly) and the
\* draw is < prob; in every other case it returns the current lane.
C1_DecisionRule ==
    Called =>
        IF maxl # CurLane /\ DeltaExceeds
        THEN /\ draw \in Draws
             /\ action = (IF draw < params.prob THEN maxl ELSE CurLane)
        ELSE action = CurLane

C1_Witness ==
    /\ Called /\ maxl # CurLane /\ DeltaExceeds
    /\ draw \in Draws /\ draw < params.prob /\ action = maxl

\* C2: a lane with a leader and a follower whose headway is below gapForward
\* or whose footway is below gapBack scores exactly 0, whatever the speeds
\* of the vehicles in it.
C2_GapVetoScoresZero ==
    Called =>
        \A l \in Lanes : (Occupied(l) /\ GapViolated(l)) => v[l] = Num(0)

C2_Witness ==
    /\ Called
    /\ \E l \in Lanes :
          /\ Occupied(l) /\ GapViolated(l) /\ v[l] = Num(0)
          /\ \A o \in OthersInLane(veh, l) : vehicles[o].speed > 0

\* C3: a lane in which the leader or the follower lookup returns no vehicle
\* scores exactly max_speed of the vehicle, and neither the gaps nor the
\* window mean are computed for it.
C3_EmptyLaneScoresMaxSpeed ==
    Called =>
        \A l \in Lanes : ~Occupied(l) =>
            /\ v[l] = Num(vehicles[veh].max_speed)
            /\ l \notin DOMAIN gaps
            /\ l \notin windowQueried

C3_Witness ==
    /\ Called
    /\ \E l, k \in Lanes :
          /\ ~Occupied(l) /\ v[l] = Num(vehicles[veh].max_speed)
          /\ Occupied(k) /\ k \in DOMAIN gaps
    /\ vehicles[veh].speed # vehicles[veh].max_speed

\* the speed of o counted only when o is in S
SpeedIn(o, S) == IF o \in S THEN vehicles[o].speed ELSE 0
WindowOf(l) == get_cars(veh, params.dxBack, params.dxForward, l)

\* C4: a lane with a leader and a follower and no gap violation scores the
\* arithmetic mean (sum over count) of the cached speeds of exactly the
\* vehicles the window query returns for dxBack/dxForward.
C4_ClearLaneScoresWindowMean ==
    Called =>
        \A l \in Lanes : (Occupied(l) /\ ~GapViolated(l)) =>
            /\ l \in windowQueried
            /\ v[l].d = Cardinality(WindowOf(l))
            /\ v[l].n = SpeedIn("a", WindowOf(l)) + SpeedIn("b", WindowOf(l))
                          + SpeedIn("c", WindowOf(l))

C4_Witness ==
    /\ Called /\ params = DefaultParams
    /\ \E l \in Lanes :
          /\ Occupied(l) /\ ~GapViolated(l)
          /\ Cardinality(WindowOf(l)) = 2
          /\ v[l] = [n |-> 10, d |-> 2]

\* the lanes whose score no lane's score exceeds: the lanes that share the
\* maximum score
TopLanes == {l \in Lanes : v[l].d > 0 /\ \A k \in Lanes : ~Gt(v[k], v[l])}
Lowest(S) == CHOOSE l \in S : \A k \in S : l <= k

\* C5: when two or more lanes share the maximum score, best_lane is the
\* lowest-indexed of them.
C5_TieBreakLowestIndex ==
    (Called /\ Cardinality(TopLanes) >= 2) => maxl = Lowest(TopLanes)

\* C6: whenever best_lane is the current lane the call returns the current
\* lane, for every threshold (negative ones too), prob and draw.
C6_NoOpWhenBestIsCurrent ==
    (Called /\ maxl = CurLane) => action = CurLane

C6_Witness ==
    /\ Called /\ maxl = CurLane /\ CurLane # 0
    /\ params.speedThreshold < 0 /\ action = CurLane

AllEmpty == \A l \in Lanes : ~Occupied(l)

\* C8: with no leader or follower in any lane (every lane scores max_speed)
\* the call returns the current lane, for every current lane, number of
\* lanes and draw, the score difference 0 not being > speedThreshold (a
\* threshold that is not negative, such as the default 5).
C8_AllEmptyNoChange ==
    (Called /\ AllEmpty /\ params.speedThreshold >= 0) => action = CurLane

C8_Witness ==
    /\ Called /\ AllEmpty /\ params = DefaultParams
    /\ scenario.lanes >= 2 /\ CurLane # 0 /\ action = CurLane

\* C9 (as claimed): with every lane empty all scores equal max_speed and the
\* tie-break yields best_lane = c, the current lane, for every c.
C9_AllEmptyBestIsCurrent ==
    (Called /\ AllEmpty) =>
        /\ \A l \in Lanes : v[l] = Num(vehicles[veh].max_speed)
        /\ maxl = CurLane

\* C9 (amended): with every lane empty all scores equal max_speed and the
\* tie-break yields best_lane = 0, the lowest-indexed lane, which is the
\* current lane only when c = 0.
C9_AllEmptyBestIsLaneZero ==
    (Called /\ AllEmpty) =>
        /\ \A l \in Lanes : v[l] = Num(vehicles[veh].max_speed)
        /\ maxl = 0

C9_Witness ==
    /\ Called /\ AllEmpty /\ CurLane # 0 /\ maxl = 0
    /\ \A l \in Lanes : v[l] = Num(vehicles[veh].max_speed)

\* the two-lane scenario: track length 200, the vehicle in lane 0 behind a
\* peer closer than gapForward, lane 1 empty, max_speed - 0 > speedThreshold
TwoLaneScenario ==
    /\ Called /\ scenario.lanes = 2 /\ scenario.length = 200
    /\ CurLane = 0
    /\ LeaderIn(0) # NoVeh
    /\ Ahead(ThisX, vehicles[LeaderIn(0)].x) < params.gapForward
    /\ OthersInLane(veh, 1) = {}
    /\ vehicles[veh].max_speed - 0 > params.speedThreshold

\* C10: in the two-lane scenario the call returns lane 1 whenever the draw
\* is < prob and lane 0 whenever the draw is >= prob.
C10_TwoLaneScenario ==
    TwoLaneScenario =>
        /\ v[0] = Num(0) /\ v[1] = Num(vehicles[veh].max_speed)
        /\ draw \in Draws
        /\ draw < params.prob => action = 1
        /\ draw >= params.prob => action = 0

C10_Witness ==
    /\ TwoLaneScenario /\ params = DefaultParams
    /\ draw \in Draws /\ draw < params.prob /\ action = 1

\* C11 (as claimed): a lane with a leader and a follower that passes both
\* gap checks and whose window query returns no vehicle gets a defined,
\* determinate score (a number, not NaN), so that max, argmax and the score
\* difference stay well defined.
C11_EmptyWindowDefinedScore ==
    Called =>
        \A l \in windowQueried : WindowOf(l) = {} => ~IsNaN(v[l])

\* what the class computes for the vehicle of the last call, on the state
\* as it is now
ClassVisits == LaneVisits(veh, scenario.lanes)
ClassScores == [l \in Lanes |-> ClassVisits[l + 1].score]
ClassMaxPos == PyMaxPos(ClassScores, scenario.lanes - 1)
ClassMaxl   == py_index(ClassScores, ClassMaxPos)
ClassWarranted ==
    Warranted(ClassMaxl, ClassScores[ClassMaxPos], ClassScores[CurLane],
              CurLane)
ClassReturn(r) ==
    Decide(ClassMaxl, ClassScores[ClassMaxPos], ClassScores[CurLane],
           CurLane, r)

\* C15: for the same vehicle, state, parameters and draw the closure-based
\* controller returns the lane the class-based get_action returns, and
\* calls random.random() exactly when get_action does.
C15_ClosureEqualsClass ==
    caller = "closure" =>
        /\ v = ClassScores
        /\ maxl = ClassMaxl
        /\ (draw # NoDraw) <=> ClassWarranted
        /\ action = ClassReturn(draw)

C15_Witness ==
    /\ caller = "closure" /\ draw \in Draws /\ action # CurLane
    /\ action = ClassReturn(draw)
    /\ params # DefaultParams

\* C16: with speedThreshold >= 0 (speeds and max_speed are never negative)
\* the call never returns a lane other than the current one whose score was
\* vetoed to 0 by a gap violation; a lane it changes to has a strictly
\* positive score.
C16_NeverChangesToVetoedLane ==
    (Called /\ params.speedThreshold >= 0 /\ action # CurLane) =>
        /\ v[action].d > 0 /\ v[action].n > 0
        /\ ~(Occupied(action) /\ GapViolated(action))

C16_Witness ==
    /\ Called /\ params.speedThreshold >= 0 /\ action # CurLane
    /\ v[action].d > 0 /\ v[action].n > 0
    /\ \E l \in Lanes : Occupied(l) /\ GapViolated(l) /\ v[l] = Num(0)

DecisionOf(id, r) ==
    LET sc   == [l \in Lanes |-> LaneVisit(id, l).score]
        p    == PyMaxPos(sc, scenario.lanes - 1)
        lane == vehicles[id].lane
    IN  Decide(py_index(sc, p), sc[p], sc[lane], lane, r)

\* every decision on record is the one the state as it is now gives
DecisionsFromPreStep ==
    \A id \in DOMAIN decisions :
        decisions[id].lane = DecisionOf(id, decisions[id].draw)

\* C13: a call leaves the cached state (lane, position, speed, max_speed of
\* every vehicle, the scenario geometry) and the configuration unchanged,
\* so every decision of a step is the one the pre-step state gives for the
\* vehicle's draw, whatever the order in which the vehicles were asked.
C13_DecisionsLeaveStateUnchanged ==
    /\ []DecisionsFromPreStep
    /\ [][envVars' = envVars]_vars

C13_Witness ==
    /\ Cardinality(DOMAIN decisions) >= 2
    /\ veh \in DOMAIN decisions
    /\ \E id \in DOMAIN decisions \ {veh} :
          decisions[id].lane # vehicles[id].lane
    /\ DecisionsFromPreStep

====
